---- MODULE Spec2Model ----
(***************************************************************************)
(* A model of okta-yoink: the configuration loader (config.py), the CLI   *)
(* wrapper (main.py) and the token extractor (token_extractor.py, in its  *)
(* two revisions okta_token_automation and okta_yoink).                    *)
(*                                                                         *)
(* Python strings are sequences of one-character strings, so that split,  *)
(* strip, startswith, lower and the substring test are computed as the    *)
(* code computes them.                                                     *)
(***************************************************************************)
EXTENDS Integers, Sequences, FiniteSets, TLC

(***************************************************************************)
(* Python str operations                                                   *)
(***************************************************************************)
UpperAlpha == <<"A","B","C","D","E","F","G","H","I","J","K","L","M",
                "N","O","P","Q","R","S","T","U","V","W","X","Y","Z">>

LowerAlpha == <<"a","b","c","d","e","f","g","h","i","j","k","l","m",
                "n","o","p","q","r","s","t","u","v","w","x","y","z">>

\* str.lower() on one character
LowerChar(c) ==
    IF \E i \in DOMAIN UpperAlpha : UpperAlpha[i] = c
    THEN LowerAlpha[CHOOSE i \in DOMAIN UpperAlpha : UpperAlpha[i] = c]
    ELSE c

\* s.lower()
Lower(s) == [i \in 1..Len(s) |-> LowerChar(s[i])]

\* the characters str.strip() removes
IsSpace(c) == c \in {" ", "\t"}

SetMin(S) == CHOOSE x \in S : \A y \in S : x <= y

SetMax(S) == CHOOSE x \in S : \A y \in S : x >= y

\* s.strip()
Strip(s) ==
    LET keep == {i \in 1..Len(s) : ~IsSpace(s[i])}
    IN  IF keep = {} THEN <<>> ELSE SubSeq(s, SetMin(keep), SetMax(keep))

\* s.startswith(p)
StartsWith(s, p) == Len(s) >= Len(p) /\ SubSeq(s, 1, Len(p)) = p

\* p in s
Contains(s, p) == \E i \in 0..(Len(s) - Len(p)) : SubSeq(s, i + 1, i + Len(p)) = p

\* c in s, for a single character c
HasChar(s, c) == \E i \in 1..Len(s) : s[i] = c

\* s.split(c, 1)[1], defined when c occurs in s
AfterFirst(s, c) ==
    LET i == SetMin({k \in 1..Len(s) : s[k] = c})
    IN  SubSeq(s, i + 1, Len(s))

\* s.split(c, 1)[0]
BeforeFirst(s, c) ==
    IF HasChar(s, c) THEN SubSeq(s, 1, SetMin({k \in 1..Len(s) : s[k] = c}) - 1) ELSE s

\* s.split(c): the pieces between the occurrences of the character c
\* computed by halves: the last piece of the left half and the first piece of
\* the right half are one piece
RECURSIVE Split(_, _)
Split(s, c) ==
    IF Len(s) = 0 THEN << <<>> >>
    ELSE IF Len(s) = 1 THEN (IF s[1] = c THEN << <<>>, <<>> >> ELSE <<s>>)
    ELSE LET half  == Len(s) \div 2
             left  == Split(SubSeq(s, 1, half), c)
             right == Split(SubSeq(s, half + 1, Len(s)), c)
         IN  SubSeq(left, 1, Len(left) - 1)
                \o <<left[Len(left)] \o right[1]>>
                \o SubSeq(right, 2, Len(right))

\* sep.join(items), by halves
RECURSIVE Join(_, _)
Join(items, sep) ==
    IF items = <<>> THEN <<>>
    ELSE IF Len(items) = 1 THEN items[1]
    ELSE LET half == Len(items) \div 2
         IN  Join(SubSeq(items, 1, half), sep) \o sep
                \o Join(SubSeq(items, half + 1, Len(items)), sep)

\* s[:n]
Take(s, n) == IF Len(s) <= n THEN s ELSE SubSeq(s, 1, n)

\* s * n for a one-character string
Repeat(c, n) == [i \in 1..n |-> c]

(***************************************************************************)
(* Python values used by the model                                         *)
(***************************************************************************)
None == "None"

\* a raised exception: its class, the step that raised it, its message
Raise(type, origin, msg) == [type |-> type, origin |-> origin, msg |-> msg]

OTE == "OktaTokenExtractionError"

\* no exception
NoExc == Raise("", "", "")

(***************************************************************************)
(* config.py                                                               *)
(***************************************************************************)
\* Config.validate's tests "X <= 0" of the three timeouts
\* the test "< 0" in place of "<= 0"
Negative(t) == t < 0

NonPositive(t) == t <= 0

\* Config.validate(): NoExc when it returns, the ValueError it raises otherwise.
\* It assigns no field.
Validate(cfg) ==
    IF cfg.OKTA_LOGIN_URL = "" THEN Raise("ValueError", "validate", "OKTA_LOGIN_URL cannot be empty")
    ELSE IF cfg.HTTPBIN_URL = "" THEN Raise("ValueError", "validate", "HTTPBIN_URL cannot be empty")
    ELSE IF NonPositive(cfg.BROWSER_TIMEOUT) THEN Raise("ValueError", "validate", "BROWSER_TIMEOUT must be positive")
    ELSE IF NonPositive(cfg.IMPLICIT_WAIT) THEN Raise("ValueError", "validate", "IMPLICIT_WAIT must be positive")
    ELSE IF NonPositive(cfg.MFA_TIMEOUT) THEN Raise("ValueError", "validate", "MFA_TIMEOUT must be positive")
    ELSE NoExc

(***************************************************************************)
(* token_extractor.py: the token location rule of both extraction         *)
(* strategies.  A header map is the parsed JSON object data["headers"]:   *)
(* a sequence (the dict's order) of [name, value], a value being a string *)
(* or a list of strings.                                                   *)
(***************************************************************************)
Str(s) == [kind |-> "str", val |-> s]

Lst(items) == [kind |-> "list", val |-> items]

Hdr(name, value) == [name |-> name, value |-> value]

\* what one method of the rule gives: a token value, nothing, or an exception
Found(value) == [st |-> "found", val |-> value]

Nothing == [st |-> "none", val |-> <<>>]

Raised == [st |-> "raised", val |-> <<>>]

\* the literal "_oauth2_proxy"
CookieName == <<"_","o","a","u","t","h","2","_","p","r","o","x","y">>

\* the literal "_oauth2_proxy=" of startswith and of the returned f-string
CookiePrefix == CookieName \o <<"=">>

\* the literals "oauth2" and "proxy" looked for in header names
Oauth2Lit == <<"o","a","u","t","h","2">>

ProxyLit == <<"p","r","o","x","y">>

\* the literal looked for in the Authorization header: "oauth2_proxy" in
\* okta_token_automation, "_oauth2_proxy" in okta_yoink
AuthNeedle(rev) == IF rev = "okta_yoink" THEN CookieName ELSE Tail(CookieName)

NameCookie == <<"C","o","o","k","i","e">>

NameAuthorization == <<"A","u","t","h","o","r","i","z","a","t","i","o","n">>

\* the slice bound of the cookie preview
PreviewLimit == 200

Ellipsis == <<".",".",".">>

\* headers.get(name, ""): the value of the entry called name, "" without one
Get(headers, name) ==
    IF \E i \in 1..Len(headers) : headers[i].name = name
    THEN headers[CHOOSE i \in 1..Len(headers) : headers[i].name = name].value
    ELSE Str(<<>>)

\* list(headers.keys())
Keys(headers) == [i \in 1..Len(headers) |-> headers[i].name]

\* a value's truth value: a non-empty string, a non-empty list
Truthy(v) == v.val # <<>>

\* the cookie header as the scan sees it: a list is joined with "; "
CookieText(v) == IF v.kind = "list" /\ Truthy(v) THEN Join(v.val, <<";", " ">>) ELSE v.val

\* one pass of "for cookie in cookie_header.split(';')": the token of the first
\* stripped entry that starts with "_oauth2_proxy=" and whose value is not blank
ScanCookies(entries) ==
    LET cookie == [i \in 1..Len(entries) |-> Strip(entries[i])]
        hits == {i \in 1..Len(entries) :
                    /\ StartsWith(cookie[i], CookiePrefix)
                    /\ Strip(AfterFirst(cookie[i], "=")) # <<>>}
    IN  IF hits = {} THEN Nothing ELSE Found(AfterFirst(cookie[SetMin(hits)], "="))

\* Method 1: the token value found in the Cookie header
CookieMethod(headers) ==
    LET v == Get(headers, NameCookie)
    IN  IF Truthy(v) THEN ScanCookies(Split(CookieText(v), ";")) ELSE Nothing

\* the test of a header name in Method 2
IsProxyName(name) == Contains(Lower(name), Oauth2Lit) /\ Contains(Lower(name), ProxyLit)

\* a guard that lets every value through
AnyValue(token) == TRUE

\* the test "if token.strip()" that guards each return
NotBlank(token) == Strip(token) # <<>>

\* Method 2 without the split at "="
HeaderMethodWholeValue(headers) ==
    LET hits == {i \in 1..Len(headers) : IsProxyName(headers[i].name)}
    IN  IF hits = {} THEN Nothing
        ELSE LET v == headers[SetMin(hits)].value
             IN  IF ~Truthy(v) THEN Nothing
                 ELSE IF v.kind = "list" THEN Raised
                 ELSE IF NotBlank(v.val) THEN Found(v.val)
                 ELSE Nothing

\* Method 2: the first header, in the map's order, whose name holds "oauth2" and
\* "proxy"; its value after the first "=", or whole without one.  A non-empty
\* list has neither split() nor strip(): AttributeError.
HeaderMethod(headers) ==
    LET hits == {i \in 1..Len(headers) : IsProxyName(headers[i].name)}
    IN  IF hits = {} THEN Nothing
        ELSE LET v == headers[SetMin(hits)].value
                 token == IF HasChar(v.val, "=") THEN AfterFirst(v.val, "=") ELSE v.val
             IN  IF ~Truthy(v) THEN Nothing
                 ELSE IF v.kind = "list" THEN Raised
                 ELSE IF NotBlank(token) THEN Found(token)
                 ELSE Nothing

\* Method 3: the Authorization header.  okta_yoink joins a list with " ";
\* okta_token_automation calls .lower() on the value as it is, which raises
\* AttributeError on a list.
AuthMethod(rev, headers) ==
    LET v == Get(headers, NameAuthorization)
        text == IF v.kind = "list" THEN Join(v.val, <<" ">>) ELSE v.val
    IN  IF v.kind = "list" /\ rev # "okta_yoink" THEN Raised
        ELSE IF Contains(Lower(text), AuthNeedle(rev)) /\ HasChar(text, "=")
                 /\ NotBlank(AfterFirst(text, "="))
             THEN Found(AfterFirst(text, "="))
             ELSE Nothing

\* the value returned: f"_oauth2_proxy={token}"
Token(value) == [kind |-> "token", token |-> CookiePrefix \o value]

\* cookie_header[:200] + "..." if len(cookie_header) > 200 else cookie_header
CookiePreview(headers) ==
    LET text == CookieText(Get(headers, NameCookie))
    IN  IF Len(text) > PreviewLimit THEN Take(text, PreviewLimit) \o Ellipsis ELSE text

\* the OktaTokenExtractionError raised when no method found a token
NotFound(headers) ==
    [kind |-> "error", type |-> OTE, msg |-> "No _oauth2_proxy token found in response",
     names |-> Keys(headers), preview |-> CookiePreview(headers)]

\* an OktaTokenExtractionError without the diagnosis
Failure(msg) == [kind |-> "error", type |-> OTE, msg |-> msg, names |-> <<>>, preview |-> <<>>]

\* the rule from "headers = data.get('headers', {})" to the final raise;
\* wrapped is the message of the strategy's "except Exception" clause
TokenRule(rev, headers, wrapped) ==
    IF headers = <<>> THEN Failure("No headers found in response")
    ELSE IF CookieMethod(headers).st = "found" THEN Token(CookieMethod(headers).val)
    ELSE IF HeaderMethod(headers).st = "raised" THEN Failure(wrapped)
    ELSE IF HeaderMethod(headers).st = "found" THEN Token(HeaderMethod(headers).val)
    ELSE IF AuthMethod(rev, headers).st = "raised" THEN Failure(wrapped)
    ELSE IF AuthMethod(rev, headers).st = "found" THEN Token(AuthMethod(rev, headers).val)
    ELSE NotFound(headers)

\* the debug line of extract_token_via_requests: okta_token_automation slices
\* headers["Cookie"] and adds "..." to it, a TypeError on a list of more than
\* 200 items; okta_yoink converts a list with str() first
CookieLogRaises(rev, headers) ==
    LET v == Get(headers, NameCookie)
    IN  rev # "okta_yoink" /\ v.kind = "list" /\ Len(v.val) > PreviewLimit

\* extract_token_via_requests, from the parsed header map on
RuleViaRequests(rev, headers) ==
    IF headers # <<>> /\ CookieLogRaises(rev, headers)
    THEN Failure("Error extracting token via HTTP request")
    ELSE TokenRule(rev, headers, "Error extracting token via HTTP request")

\* extract_token_from_internal_service, from the parsed header map on
RuleFromInternalService(rev, headers) == TokenRule(rev, headers, "Error extracting token")

(***************************************************************************)
(* The state                                                               *)
(***************************************************************************)
VARIABLES
    caller,       \* who runs the extractor: main(), or a library caller of run()
    cfgKind,      \* the class main() calls as Config: "Config" is config.py's,
                  \* "Mock" one that also carries LOG_FILE and LOG_LEVEL
    cfgRaises,    \* Config() raises: an integer variable of the environment is no integer
    config,       \* the Config object the environment yields
    world,        \* what the browser, the echo service and the file system will do
    revision,     \* the revision of token_extractor.py
    pc,           \* the statement about to run
    driver,       \* self.driver: None or the browser session
    exc,          \* the exception in flight
    token,        \* run()'s local variable token
    outcome,      \* what reached the caller of run(): a token or an exception
    exitCode,     \* main()'s return value, <<>> before it returns
    events,       \* the calls made so far, in order
    quitCalls,    \* the number of driver.quit() calls
    created,      \* the number of browser sessions created
    echoNavs,     \* the number of driver.get(HTTPBIN_URL) calls
    tokenFile,    \* config.TOKEN_FILE on disk
    environ,      \* os.environ[config.TOKEN_ENV_VAR]
    hdrs,         \* token rule: the parsed header map
    applied,      \* token rule: what each strategy gave on the header map
    validated,    \* Config.validate(): the result of a direct call
    loginState,   \* login_to_okta(): the page, the credentials and what was done so far
    mfaState      \* handle_mfa(): the clock, the browser's location and the result

vars == <<caller, cfgKind, cfgRaises, config, world, revision, pc, driver, exc, token,
          outcome, exitCode, events, quitCalls, created, echoNavs, tokenFile, environ,
          hdrs, applied, validated, loginState, mfaState>>

runVars == <<pc, driver, exc, token, outcome, exitCode, events, quitCalls, created,
             echoNavs, tokenFile, environ>>

inputVars == <<caller, cfgKind, cfgRaises, config, world, revision>>

ruleVars == <<hdrs, applied>>

detailVars == <<loginState, mfaState>>

NoToken == <<>>

NoOutcome == [kind |-> "none", token |-> <<>>, exc |-> NoExc]

Returned(t) == [kind |-> "token", token |-> t, exc |-> NoExc]

Failed(e) == [kind |-> "error", token |-> <<>>, exc |-> e]

Revisions == {"okta_token_automation", "okta_yoink"}

(***************************************************************************)
(* Inputs of a run                                                         *)
(***************************************************************************)
\* the largest timeout value drawn
MaxTimeout == 1

TimeoutValues == (0 - 1)..MaxTimeout

UrlValues == {"", "https://tatari.okta.com"}

Cfg(okta, httpbin, browser, implicit, mfa) ==
    [OKTA_LOGIN_URL |-> okta, HTTPBIN_URL |-> httpbin, BROWSER_TIMEOUT |-> browser,
     IMPLICIT_WAIT |-> implicit, MFA_TIMEOUT |-> mfa]

\* every configuration within the bounds
AllConfigs ==
    {Cfg(o, h, b, i, m) : o \in UrlValues, h \in UrlValues,
                          b \in TimeoutValues, i \in TimeoutValues, m \in TimeoutValues}

GoodUrl == "https://tatari.okta.com"

\* the configurations of a run: a valid one, and one per way of being invalid
RunConfigs ==
    {Cfg(GoodUrl, GoodUrl, 1, 1, 1), Cfg("", GoodUrl, 1, 1, 1), Cfg(GoodUrl, "", 1, 1, 1),
     Cfg(GoodUrl, GoodUrl, 0, 1, 1), Cfg(GoodUrl, GoodUrl, 1, 0 - 1, 1),
     Cfg(GoodUrl, GoodUrl, 1, 1, 0)}

\* header maps the echo service answers with in a run
MapEmpty == <<>>

MapNoToken ==
    <<Hdr(NameAuthorization, Str(<<"B","e","a","r","e","r"," ","t">>)),
      Hdr(<<"U","s","e","r","-","A","g","e","n","t">>, Str(<<"C","h","r","o","m","e">>))>>

MapCookieA == <<Hdr(NameCookie, Str(<<"a","=","b",";"," ">> \o CookiePrefix \o <<"A","1">>))>>

MapCookieB == <<Hdr(NameCookie, Str(CookiePrefix \o <<"B","2">>))>>

Resp(kind, headers) == [kind |-> kind, headers |-> headers]

\* what the direct HTTP request of the cookie-replay strategy meets
ReplayResponses ==
    {Resp("network_error", <<>>), Resp("http_error", <<>>), Resp("bad_json", <<>>),
     Resp("headers", MapEmpty), Resp("headers", MapNoToken), Resp("headers", MapCookieA)}

\* what the browser's page of the page-scrape strategy shows
ScrapeResponses ==
    {Resp("timeout", <<>>), Resp("no_element", <<>>), Resp("empty_body", <<>>),
     Resp("bad_json", <<>>),
     Resp("headers", MapEmpty), Resp("headers", MapNoToken), Resp("headers", MapCookieB)}

AllWorlds ==
    [driver : {"ok", "fail", "wait_fail", "tmpdir_fail"},
     login  : {"ok", "fail", "interrupt"},
     mfa    : {"ok", "fail", "interrupt"},
     replay : ReplayResponses,
     scrape : ScrapeResponses,
     save   : {"ok", "mkdir_fail", "write_fail", "chmod_fail"},
     quit   : {"ok", "raise"},
     file   : {"absent", "no_dir", "stale"}]

(***************************************************************************)
(* token_extractor.py: the two extraction strategies                       *)
(***************************************************************************)
\* extract_token_via_requests(): the token returned or the error raised.  Every
\* failure leaves as an OktaTokenExtractionError.
ViaRequests(rev, drv, resp) ==
    IF drv = None THEN Failure("Driver not initialized")
    ELSE IF resp.kind \in {"network_error", "http_error"} THEN Failure("HTTP request failed")
    ELSE IF resp.kind = "bad_json" THEN Failure("Invalid JSON response")
    ELSE RuleViaRequests(rev, resp.headers)

\* extract_token_from_internal_service(): the token returned or the error raised
FromInternalService(rev, drv, resp) ==
    IF drv = None THEN Failure("Driver not initialized")
    ELSE IF resp.kind = "timeout" THEN Failure("Timeout waiting for httpbin response")
    ELSE IF resp.kind = "no_element" THEN Failure("Could not find JSON response element")
    ELSE IF resp.kind = "empty_body" THEN Failure("Empty response from httpbin service")
    ELSE IF resp.kind = "bad_json" THEN Failure("Invalid JSON response")
    ELSE RuleFromInternalService(rev, resp.headers)

\* an except clause that catches the token-not-found error alone
CaughtOnlyNotFound(res) ==
    res.type = OTE /\ res.msg = "No _oauth2_proxy token found in response"

\* run()'s "except OktaTokenExtractionError" around the first strategy
CaughtByFallback(res) == res.type = OTE

\* running the second strategy whatever the first returned
AfterReplayAlwaysScrape(res) ==
    IF res.kind = "token" THEN "scrape"
    ELSE IF CaughtByFallback(res) THEN "scrape"
    ELSE "run_except"

\* going on to save_token when the first strategy raised
AfterReplaySavesAnyway(res) ==
    IF res.kind = "token" THEN "save"
    ELSE IF CaughtByFallback(res) THEN "save"
    ELSE "run_except"

\* run()'s choice after the first strategy returned or raised
AfterReplay(res) ==
    IF res.kind = "token" THEN "save"
    ELSE IF CaughtByFallback(res) THEN "scrape"
    ELSE "run_except"

\* the classes "except Exception" catches
IsException(type) == type \notin {"", "KeyboardInterrupt"}

\* an except clause that re-raises whatever it caught
RunReraise(e) == e

\* run()'s "except Exception": OktaTokenExtractionError is re-raised as it is,
\* any other Exception wrapped; KeyboardInterrupt is not caught
RunWrap(e) ==
    IF IsException(e.type) /\ e.type # OTE
    THEN Raise(OTE, e.origin, "Token extraction failed")
    ELSE e

(***************************************************************************)
(* main.py                                                                 *)
(***************************************************************************)
\* setup_logging reads config.LOG_FILE and config.LOG_LEVEL, which config.py's
\* Config.__init__ never sets
HasLogAttrs(kind) == kind # "Config"

\* main()'s return value: 0 after the with block, 1 from each except clause
ExitCode(e) ==
    IF e = NoExc THEN 0
    ELSE IF e.type = "KeyboardInterrupt" THEN 1
    ELSE IF e.type = OTE THEN 1
    ELSE 1

(***************************************************************************)
(* Which worlds a run can tell apart                                       *)
(***************************************************************************)
DefaultWorld ==
    [driver |-> "ok", login |-> "ok", mfa |-> "ok", replay |-> Resp("headers", MapCookieA),
     scrape |-> Resp("headers", MapCookieB), save |-> "ok", quit |-> "ok",
     file |-> "absent"]

\* whether run() in world w gets as far as the step; the token file an earlier
\* run left matters to the runs that get to save_token or fail in the fallback
Reaches(w, rev, step) ==
    LET atLogin  == w.driver = "ok"
        atMfa    == atLogin /\ w.login = "ok"
        atReplay == atMfa /\ w.mfa = "ok"
        replayed == ViaRequests(rev, "session", w.replay)
        atScrape == atReplay /\ replayed.kind # "token"
        atSave   == atReplay /\ (replayed.kind = "token"
                                 \/ FromInternalService(rev, "session", w.scrape).kind = "token")
    IN  CASE step = "login"  -> atLogin
          [] step = "mfa"    -> atMfa
          [] step = "replay" -> atReplay
          [] step = "scrape" -> atScrape
          [] step = "save"   -> atSave
          [] step = "quit"   -> w.driver \notin {"fail", "tmpdir_fail"}
          [] step = "file"   -> atSave \/ atScrape

\* one world for each distinguishable course of a run
Worlds(rev) ==
    {w \in AllWorlds : \A step \in {"login", "mfa", "replay", "scrape", "save", "quit", "file"} :
                          ~Reaches(w, rev, step) => w[step] = DefaultWorld[step]}

(***************************************************************************)
(* A run: main(), or a library caller's Config(), OktaTokenExtractor(config) *)
(* and run()                                                               *)
(***************************************************************************)
Absent == [dir |-> TRUE, exists |-> FALSE, content |-> <<>>, mode |-> ""]

\* config.TOKEN_FILE before the run: absent, absent with its parent directory
\* missing too, or left by an earlier run with another token and mode 0644
FileBefore(kind) ==
    CASE kind = "absent" -> Absent
      [] kind = "no_dir" -> [Absent EXCEPT !.dir = FALSE]
      [] kind = "stale"  -> [dir |-> TRUE, exists |-> TRUE,
                             content |-> CookiePrefix \o <<"o", "l", "d">>, mode |-> "644"]

\* the rule's and validate's variables when no direct call of them is modelled
NotApplied == [kind |-> "none"]

NoneApplied == [requests |-> NotApplied, scrape |-> NotApplied]

RuleIdle == hdrs = <<>> /\ applied = NoneApplied

ValidateIdle == validated = [st |-> "idle", exc |-> NoExc]

LoginIdle == loginState = [st |-> "idle"]

MfaIdle == mfaState = [st |-> "idle"]

Init ==
    /\ caller \in {"main", "library"}
    /\ cfgKind \in {"Config", "Mock"}
    /\ caller = "library" => cfgKind = "Config"
    /\ cfgRaises \in BOOLEAN
    /\ config \in RunConfigs
    /\ cfgRaises => config = Cfg(GoodUrl, GoodUrl, 1, 1, 1)
    /\ revision \in Revisions
    /\ world \in Worlds(revision)
    /\ pc = "config"
    /\ driver = None
    /\ exc = NoExc
    /\ token = NoToken
    /\ outcome = NoOutcome
    /\ exitCode = <<>>
    /\ events = <<>>
    /\ quitCalls = 0
    /\ created = 0
    /\ echoNavs = 0
    /\ tokenFile = FileBefore(world.file)
    /\ environ = NoToken
    /\ RuleIdle
    /\ ValidateIdle
    /\ LoginIdle
    /\ MfaIdle

\* an exception leaves the code outside run(): to main()'s except clauses, or
\* to the library caller
Propagate(e) ==
    /\ exc' = e
    /\ IF caller = "main"
       THEN pc' = "handlers" /\ outcome' = outcome
       ELSE pc' = "done" /\ outcome' = Failed(e)

\* an exception is raised inside run()'s try block
RaiseInRun(e) == exc' = e /\ pc' = "run_except"

\* cleanup(): quit the browser if there is one, swallow what quit() raises,
\* and forget the driver
QuitLog == IF world.quit = "raise" THEN <<"quit", "warning">> ELSE <<"quit">>

CleanupKeepsDriver ==
    IF driver # None
    THEN /\ quitCalls' = quitCalls + 1
         /\ events' = events \o QuitLog
         /\ driver' = driver
    ELSE UNCHANGED <<quitCalls, events, driver>>

Cleanup ==
    IF driver # None
    THEN /\ quitCalls' = quitCalls + 1
         /\ events' = events \o QuitLog
         /\ driver' = None
    ELSE UNCHANGED <<quitCalls, events, driver>>

\* driver.quit() is about to raise inside cleanup()
QuitRaises == driver # None /\ world.quit = "raise"

\* a cleanup() that lets the exception of quit() out
CleanupErrorEscalated(raised) ==
    IF raised THEN Raise("WebDriverException", "quit", "Error closing browser") ELSE NoExc

\* what cleanup() raises: its "except Exception" prints a warning and swallows
\* what quit() raised
CleanupError(raised) == NoExc

\* the exception in flight after a finally block that ran cleanup()
AfterCleanup(e, raised) == IF CleanupError(raised) # NoExc THEN CleanupError(raised) ELSE e

\* config = Config()
ConfigInit ==
    /\ pc = "config"
    /\ IF cfgRaises
       THEN Propagate(Raise("ValueError", "Config", "invalid literal for int()"))
       ELSE /\ pc' = IF caller = "main" THEN "logging" ELSE "construct"
            /\ UNCHANGED <<exc, outcome>>
    /\ events' = Append(events, "Config")
    /\ UNCHANGED <<driver, token, exitCode, quitCalls, created, echoNavs, tokenFile, environ>>
    /\ UNCHANGED <<inputVars, ruleVars, validated, detailVars>>

\* setup_logging(config)
SetupLogging ==
    /\ pc = "logging"
    /\ IF HasLogAttrs(cfgKind)
       THEN pc' = "construct" /\ UNCHANGED <<exc, outcome>>
       ELSE Propagate(Raise("AttributeError", "setup_logging", "no attribute LOG_FILE"))
    /\ events' = Append(events, "setup_logging")
    /\ UNCHANGED <<driver, token, exitCode, quitCalls, created, echoNavs, tokenFile, environ>>
    /\ UNCHANGED <<inputVars, ruleVars, validated, detailVars>>

\* skipping the validation in the constructor
ConstructErrorUnchecked(cfg) == NoExc

\* what OktaTokenExtractor.__init__ raises: config.validate()'s error
ConstructError(cfg) == Validate(cfg)

\* OktaTokenExtractor(config)
Construct ==
    /\ pc = "construct"
    /\ IF ConstructError(config) # NoExc
       THEN Propagate(ConstructError(config))
       ELSE /\ pc' = IF caller = "main" THEN "enter" ELSE "setup_driver"
            /\ UNCHANGED <<exc, outcome>>
    /\ driver' = None
    /\ events' = Append(events, "construct")
    /\ UNCHANGED <<token, exitCode, quitCalls, created, echoNavs, tokenFile, environ>>
    /\ UNCHANGED <<inputVars, ruleVars, validated, detailVars>>

\* __enter__ of main()'s with statement
Enter ==
    /\ pc = "enter"
    /\ pc' = "setup_driver"
    /\ events' = Append(events, "enter")
    /\ UNCHANGED <<driver, exc, token, outcome, exitCode, quitCalls, created, echoNavs,
                   tokenFile, environ>>
    /\ UNCHANGED <<inputVars, ruleVars, validated, detailVars>>

\* self.setup_driver(): webdriver.Chrome() may raise, and so may implicitly_wait()
\* on the session just created; tempfile.mkdtemp() is called before the try
\* statement, and its OSError leaves setup_driver as it is
SetupDriver ==
    /\ pc = "setup_driver"
    /\ events' = Append(events, "setup_driver")
    /\ CASE world.driver = "ok" ->
              driver' = "session" /\ created' = created + 1 /\ pc' = "login" /\ exc' = exc
         [] world.driver = "wait_fail" ->
              /\ driver' = "session" /\ created' = created + 1
              /\ RaiseInRun(Raise(OTE, "setup_driver", "Failed to initialize Chrome WebDriver"))
         [] world.driver = "fail" ->
              /\ UNCHANGED <<driver, created>>
              /\ RaiseInRun(Raise(OTE, "setup_driver", "Failed to initialize Chrome WebDriver"))
         [] world.driver = "tmpdir_fail" ->
              /\ UNCHANGED <<driver, created>>
              /\ RaiseInRun(Raise("OSError", "setup_driver", "No usable temporary directory"))
    /\ UNCHANGED <<token, outcome, exitCode, quitCalls, echoNavs, tokenFile, environ>>
    /\ UNCHANGED <<inputVars, ruleVars, validated, detailVars>>

\* self.login_to_okta(): every Exception leaves as an OktaTokenExtractionError;
\* an interrupt at a prompt or a wait is not caught
LoginToOkta ==
    /\ pc = "login"
    /\ events' = Append(events, "login")
    /\ echoNavs' = echoNavs + 1
    /\ CASE world.login = "ok" -> pc' = "mfa" /\ exc' = exc
         [] world.login = "fail" -> RaiseInRun(Raise(OTE, "login", "Error during login"))
         [] world.login = "interrupt" -> RaiseInRun(Raise("KeyboardInterrupt", "login", ""))
    /\ UNCHANGED <<driver, token, outcome, exitCode, quitCalls, created, tokenFile, environ>>
    /\ UNCHANGED <<inputVars, ruleVars, validated, detailVars>>

\* self.handle_mfa()
HandleMfa ==
    /\ pc = "mfa"
    /\ events' = Append(events, "mfa")
    /\ CASE world.mfa = "ok" -> pc' = "replay" /\ exc' = exc
         [] world.mfa = "fail" -> RaiseInRun(Raise(OTE, "mfa", "Error during MFA"))
         [] world.mfa = "interrupt" -> RaiseInRun(Raise("KeyboardInterrupt", "mfa", ""))
    /\ UNCHANGED <<driver, token, outcome, exitCode, quitCalls, created, echoNavs, tokenFile,
                   environ>>
    /\ UNCHANGED <<inputVars, ruleVars, validated, detailVars>>

\* token = self.extract_token_via_requests(), inside run()'s inner try
ExtractViaRequests ==
    /\ pc = "replay"
    /\ events' = Append(events, "replay")
    /\ LET res == ViaRequests(revision, driver, world.replay)
       IN  /\ pc' = AfterReplay(res)
           /\ token' = IF res.kind = "token" THEN res.token ELSE token
           /\ exc' = IF AfterReplay(res) = "run_except"
                     THEN Raise(res.type, "replay", res.msg) ELSE exc
    /\ UNCHANGED <<driver, outcome, exitCode, quitCalls, created, echoNavs, tokenFile, environ>>
    /\ UNCHANGED <<inputVars, ruleVars, validated, detailVars>>

\* token = self.extract_token_from_internal_service(), in the except clause
ExtractFromInternalService ==
    /\ pc = "scrape"
    /\ events' = Append(events, "scrape")
    /\ echoNavs' = echoNavs + 1
    /\ LET res == FromInternalService(revision, driver, world.scrape)
       IN  IF res.kind = "token"
           THEN token' = res.token /\ pc' = "save" /\ exc' = exc
           ELSE token' = token /\ RaiseInRun(Raise(res.type, "scrape", res.msg))
    /\ UNCHANGED <<driver, outcome, exitCode, quitCalls, created, tokenFile, environ>>
    /\ UNCHANGED <<inputVars, ruleVars, validated, detailVars>>

\* the mode write_text gives a file it creates (0666 less the umask)
CreatedMode == "644"

\* a write that ends the text with a newline
FileTextWithNewline(t) == t \o <<"\n">>

\* what write_text(token, encoding="utf-8") puts in the file: the characters of
\* the string, none added
FileText(t) == t

\* save_token, first half: mkdir(parents=True, exist_ok=True) and
\* write_text(token).  A failed write leaves the file as it was or emptied.
SaveWrite ==
    /\ pc = "save"
    /\ events' = Append(events, "save")
    /\ CASE world.save = "mkdir_fail" ->
              /\ tokenFile' = tokenFile
              /\ RaiseInRun(Raise(OTE, "save", "Failed to save token"))
         [] world.save = "write_fail" ->
              /\ \/ tokenFile' = [tokenFile EXCEPT !.dir = TRUE]
                 \/ tokenFile' = [dir |-> TRUE, exists |-> TRUE, content |-> <<>>,
                                  mode |-> IF tokenFile.exists THEN tokenFile.mode
                                           ELSE CreatedMode]
              /\ RaiseInRun(Raise(OTE, "save", "Failed to save token"))
         [] world.save \in {"ok", "chmod_fail"} ->
              /\ tokenFile' = [dir |-> TRUE, exists |-> TRUE, content |-> FileText(token),
                               mode |-> IF tokenFile.exists THEN tokenFile.mode
                                        ELSE CreatedMode]
              /\ pc' = "save_chmod"
              /\ exc' = exc
    /\ UNCHANGED <<driver, token, outcome, exitCode, quitCalls, created, echoNavs, environ>>
    /\ UNCHANGED <<inputVars, ruleVars, validated, detailVars>>

\* save_token, second half: chmod(0o600), then run()'s "return token".
\* os.environ is not assigned.
SaveChmod ==
    /\ pc = "save_chmod"
    /\ IF world.save = "chmod_fail"
       THEN /\ tokenFile' = tokenFile
            /\ RaiseInRun(Raise(OTE, "save", "Failed to save token"))
       ELSE /\ tokenFile' = [tokenFile EXCEPT !.mode = "600"]
            /\ pc' = "run_finally"
            /\ exc' = exc
    /\ UNCHANGED <<driver, token, outcome, exitCode, events, quitCalls, created, echoNavs,
                   environ>>
    /\ UNCHANGED <<inputVars, ruleVars, validated, detailVars>>

\* run()'s "except Exception as e"
RunExcept ==
    /\ pc = "run_except"
    /\ exc' = RunWrap(exc)
    /\ pc' = "run_finally"
    /\ UNCHANGED <<driver, token, outcome, exitCode, events, quitCalls, created, echoNavs,
                   tokenFile, environ>>
    /\ UNCHANGED <<inputVars, ruleVars, validated, detailVars>>

\* run()'s "finally: self.cleanup()", after which the token or the exception
\* reaches the caller of run()
RunFinally ==
    /\ pc = "run_finally"
    /\ Cleanup
    /\ exc' = AfterCleanup(exc, QuitRaises)
    /\ outcome' = IF exc' = NoExc THEN Returned(token) ELSE Failed(exc')
    /\ pc' = IF caller = "main" THEN "exit_ctx" ELSE "done"
    /\ UNCHANGED <<token, exitCode, created, echoNavs, tokenFile, environ>>
    /\ UNCHANGED <<inputVars, ruleVars, validated, detailVars>>

\* __exit__ of main()'s with statement: cleanup() again; it returns None, so an
\* exception goes on to main()'s except clauses
ExitContext ==
    /\ pc = "exit_ctx"
    /\ Cleanup
    /\ exc' = AfterCleanup(exc, QuitRaises)
    /\ pc' = "handlers"
    /\ UNCHANGED <<token, outcome, exitCode, created, echoNavs, tokenFile, environ>>
    /\ UNCHANGED <<inputVars, ruleVars, validated, detailVars>>

\* main()'s "return 0" or the "return 1" of the except clause that matches
MainReturn ==
    /\ pc = "handlers"
    /\ exitCode' = <<ExitCode(exc)>>
    /\ pc' = "done"
    /\ UNCHANGED <<driver, exc, token, outcome, events, quitCalls, created, echoNavs,
                   tokenFile, environ>>
    /\ UNCHANGED <<inputVars, ruleVars, validated, detailVars>>

Next ==
    \/ ConfigInit
    \/ SetupLogging
    \/ Construct
    \/ Enter
    \/ SetupDriver
    \/ LoginToOkta
    \/ HandleMfa
    \/ ExtractViaRequests
    \/ ExtractFromInternalService
    \/ SaveWrite
    \/ SaveChmod
    \/ RunExcept
    \/ RunFinally
    \/ ExitContext
    \/ MainReturn

Spec == Init /\ [][Next]_vars

(***************************************************************************)
(* Direct calls of Config.validate()                                       *)
(***************************************************************************)
InitValidate ==
    /\ caller = "library"
    /\ cfgKind = "Config"
    /\ cfgRaises = FALSE
    /\ config \in AllConfigs
    /\ revision = "okta_token_automation"
    /\ world = DefaultWorld
    /\ pc = "validate"
    /\ driver = None
    /\ exc = NoExc
    /\ token = NoToken
    /\ outcome = NoOutcome
    /\ exitCode = <<>>
    /\ events = <<>>
    /\ quitCalls = 0
    /\ created = 0
    /\ echoNavs = 0
    /\ tokenFile = Absent
    /\ environ = NoToken
    /\ RuleIdle
    /\ ValidateIdle
    /\ LoginIdle
    /\ MfaIdle

\* config.validate()
ValidateCall ==
    /\ pc = "validate"
    /\ validated' = [st |-> IF Validate(config) = NoExc THEN "returned" ELSE "raised",
                     exc |-> Validate(config)]
    /\ pc' = "done"
    /\ UNCHANGED <<driver, exc, token, outcome, exitCode, events, quitCalls, created,
                   echoNavs, tokenFile, environ>>
    /\ UNCHANGED <<inputVars, ruleVars, detailVars>>

NextValidate == ValidateCall

SpecValidate == InitValidate /\ [][NextValidate]_vars

(***************************************************************************)
(* The token location rule on bounded header maps                          *)
(***************************************************************************)
\* the most entries a Cookie header is built from
MaxEntries == 2

\* entries of a Cookie header
CookieEntries ==
    {<<"a","=","b">>,
     CookiePrefix \o <<"X","Y","Z","1","2","3">>,
     CookiePrefix \o <<"L","M","N","4","5","6">>,
     CookiePrefix,
     CookieName,
     <<"x">> \o CookiePrefix \o <<"Q">>,
     CookiePrefix \o <<" ", "T", "=", "1">>}

\* sequences of 1..n entries
RECURSIVE EntrySeqs(_)
EntrySeqs(n) ==
    IF n = 0 THEN {<<>>}
    ELSE EntrySeqs(n - 1) \cup
         {Append(q, e) : q \in {r \in EntrySeqs(n - 1) : Len(r) = n - 1}, e \in CookieEntries}

\* Cookie header values: strings of entries delimited by ";" or "; ", lists of
\* entries, and the empty string and list
CookieValues ==
    {Str(Join(q, sep)) : q \in EntrySeqs(MaxEntries), sep \in {<<";">>, <<";", " ">>}}
    \cup {Lst(q) : q \in EntrySeqs(MaxEntries)}
    \cup {Str(<<"a","=","b",";"," ","_","o","a","u","t","h","2","_","p","r","o","x","y","=","X","Y","Z","1","2","3",";"," ","c","=","d">>)}

\* a Cookie header longer than the preview
LongEntry == <<"k", "=">> \o Repeat("x", PreviewLimit)

\* a Cookie header of more entries than the preview has characters, the last
\* of them the token's
LongList ==
    [i \in 1..(PreviewLimit + 1) |->
        IF i = PreviewLimit + 1 THEN CookiePrefix \o <<"L","M","N","4","5","6">> ELSE <<"a","=","b">>]

LongCookieValues ==
    {Str(LongEntry), Str(LongEntry \o <<";", " ">> \o CookiePrefix),
     Lst(<<LongEntry, <<"a","=","b">>>>), Str(Repeat("x", PreviewLimit)),
     Lst(LongList), Lst(SubSeq(LongList, 1, PreviewLimit))}

FewCookieValues == {Str(<<"a","=","b">>), Str(CookiePrefix)}

ProxyNames ==
    {<<"X","-","O","a","u","t","h","2","-","P","r","o","x","y">>,
     <<"x","-","o","a","u","t","h","2","-","p","r","o","x","y">>,
     <<"A","u","t","h","o","r","i","z","a","t","i","o","n","-","O","a","u","t","h","2","-","P","r","o","x","y">>,
     <<"X","-","P","r","o","x","y","-","O","a","u","t","h","2">>,
     <<"X","-","O","a","u","t","h","2">>}

ProxyValues ==
    {<<"A","B","C","7","8","9">>, CookiePrefix \o <<"t","o","k","e","n","7","8","9">>, <<>>, <<" ">>, <<"=">>,
     <<"=", " ">>, <<"a", "=", "b", "=", "c">>, <<" ", "v">>, <<"t","o","k","e","n","4","5","6">>}

AuthValues ==
    {Str(<<"B","e","a","r","e","r"," ","s","o","m","e","-","t","o","k","e","n">>),
     Str(CookiePrefix \o <<"t","o","k">>),
     Str(Tail(CookiePrefix) \o <<"t","o","k">>),
     Str(<<"_","O","A","u","t","h","2","_","P","r","o","x","y">> \o <<"=","t","o","k">>),
     Str(<<"B"," ">> \o CookieName),
     Str(CookiePrefix),
     Str(<<"x","=","y"," ">> \o CookiePrefix \o <<"t","o","k">>),
     Lst(<< <<"B">>, CookiePrefix \o <<"t","o","k">> >>),
     Lst(<< <<"B","e","a","r","e","r"," ","s","o","m","e","-","t","o","k","e","n">> >>),
     Lst(<< >>),
     Lst(<< <<"_","o","a","u","t","h","2">>, <<"_","p","r","o","x","y","=","t">> >>)}

NameUserAgent == <<"U","s","e","r","-","A","g","e","n","t">>

\* zero or one header of each of the given values
Opt(name, values) == {<<>>} \cup {<<Hdr(name, v)>> : v \in values}

\* the header maps the rule is applied to: the Cookie header varied, then the
\* oauth2-proxy header (one, or two in either order), then the Authorization header
HeaderMaps ==
    {c \o o :
        c \in Opt(NameCookie, CookieValues),
        o \in {<<>>, <<Hdr(<<"X","-","O","a","u","t","h","2","-","P","r","o","x","y">>, Str(<<"A","B","C","7","8","9">>)),
                       Hdr(NameAuthorization, Str(CookiePrefix \o <<"t","o","k">>))>>}}
    \cup
    {c \o a : c \in Opt(NameCookie, LongCookieValues),
              a \in Opt(NameAuthorization, {Str(<<"B","e","a","r","e","r"," ","s","o","m","e","-","t","o","k","e","n">>)})}
    \cup
    {c \o x \o a :
        c \in Opt(NameCookie, FewCookieValues),
        x \in {<<Hdr(n, Str(v))>> : n \in ProxyNames, v \in ProxyValues}
              \cup {<<Hdr(<<"X","-","O","a","u","t","h","2","-","P","r","o","x","y">>, Str(v)), Hdr(<<"x","-","o","a","u","t","h","2","-","p","r","o","x","y">>, Str(w))>> :
                        v \in ProxyValues, w \in ProxyValues},
        a \in Opt(NameAuthorization, {Str(CookiePrefix \o <<"t","o","k">>)})}
    \cup
    {c \o x \o a \o u :
        c \in Opt(NameCookie, FewCookieValues),
        x \in Opt(<<"X","-","O","a","u","t","h","2","-","P","r","o","x","y">>, {Str(<<" ">>), Lst(<< <<"A","B","C","7","8","9">> >>), Lst(<< >>)}),
        a \in Opt(NameAuthorization, AuthValues),
        u \in Opt(NameUserAgent, {Str(<<"C","h","r","o","m","e">>)})}

InitRule ==
    /\ caller = "library"
    /\ cfgKind = "Config"
    /\ cfgRaises = FALSE
    /\ config = Cfg(GoodUrl, GoodUrl, 1, 1, 1)
    /\ revision \in Revisions
    /\ world = DefaultWorld
    /\ pc = "rule"
    /\ driver = "session"
    /\ exc = NoExc
    /\ token = NoToken
    /\ outcome = NoOutcome
    /\ exitCode = <<>>
    /\ events = <<>>
    /\ quitCalls = 0
    /\ created = 1
    /\ echoNavs = 0
    /\ tokenFile = Absent
    /\ environ = NoToken
    /\ hdrs \in HeaderMaps
    /\ applied = NoneApplied
    /\ ValidateIdle
    /\ LoginIdle
    /\ MfaIdle

\* extract_token_via_requests on the answer {"headers": hdrs}
ApplyViaRequests ==
    /\ pc = "rule"
    /\ applied.requests = NotApplied
    /\ applied' = [applied EXCEPT
                      !.requests = ViaRequests(revision, driver, Resp("headers", hdrs))]
    /\ UNCHANGED <<hdrs, validated, inputVars, runVars, detailVars>>

\* extract_token_from_internal_service on the page {"headers": hdrs}
ApplyFromInternalService ==
    /\ pc = "rule"
    /\ applied.scrape = NotApplied
    /\ applied' = [applied EXCEPT
                      !.scrape = FromInternalService(revision, driver, Resp("headers", hdrs))]
    /\ UNCHANGED <<hdrs, validated, inputVars, runVars, detailVars>>

NextRule == ApplyViaRequests \/ ApplyFromInternalService

SpecRule == InitRule /\ [][NextRule]_vars

(***************************************************************************)
(* login_to_okta, called on an extractor whose browser session exists      *)
(***************************************************************************)
\* the run variables of a direct call of one method, named by step
DirectCall(step) ==
    /\ caller = "library"
    /\ cfgRaises = FALSE
    /\ world = DefaultWorld
    /\ pc = step
    /\ driver = "session"
    /\ exc = NoExc
    /\ token = NoToken
    /\ outcome = NoOutcome
    /\ exitCode = <<>>
    /\ events = <<>>
    /\ quitCalls = 0
    /\ created = 1
    /\ echoNavs = 0
    /\ tokenFile = Absent
    /\ environ = NoToken
    /\ RuleIdle
    /\ ValidateIdle

\* the ordered locator strategies of a role.  "probe" is okta_yoink's first
\* loop over username_selectors, whose result is reset before "username" is
\* resolved; the last two username strategies are the scan for the first text
\* input and _find_element_with_soup; okta_token_automation resolves the submit
\* control with the selectors _find_submit_button_with_soup derives from a
\* candidate (its id, its type, its classes)
StrategyList(rev, role) ==
    CASE role = "probe" ->
           <<"name:identifier", "id:input28", "id:okta-signin-username",
             "css:input[type='text'][name='identifier']", "css:input[type='text']">>
      [] role = "username" ->
           <<"name:identifier", "css:input[name='identifier']",
             "css:input[autocomplete='username']", "css:input[type='text']",
             "xpath://input[@name='identifier']", "xpath://input[@autocomplete='username']",
             "first text input", "soup">>
      [] role = "password" ->
           IF rev = "okta_yoink"
           THEN <<"name:credentials.passcode", "id:input36", "css:input.password-with-toggle",
                  "id:okta-signin-password", "css:input[type='password']">>
           ELSE <<"name:credentials.passcode", "css:input[type='password']",
                  "css:input[autocomplete='current-password']", "xpath://input[@type='password']">>
      [] role = "submit" ->
           IF rev = "okta_yoink"
           THEN <<"css:input.button.button-primary[type='submit'][value='Sign in']",
                  "css:input.button.button-primary[type='submit']",
                  "css:input[type='submit'][value='Sign in']", "id:okta-signin-submit",
                  "css:input[type='submit']">>
           ELSE <<"id:candidate", "css:input[type='submit']", "css:.button.button-primary">>

Roles(rev) ==
    IF rev = "okta_yoink" THEN {"probe", "username", "password", "submit"}
    ELSE {"username", "password", "submit"}

\* what a locate attempt gives on the page: the element, no such element (a
\* wait on it times out), or another WebDriver error
Hit == "hit"

FailKinds == {"missing", "error"}

\* the results of a list of n strategies of which the h-th is the first to
\* resolve (none if h = 0); later tells whether the ones after it resolve too
Pattern(n, h, later, kind) ==
    [i \in 1..n |-> IF h # 0 /\ (i = h \/ (i > h /\ later)) THEN Hit ELSE kind]

Patterns(n) ==
    {Pattern(n, h, later, kind) : h \in 0..n, later \in BOOLEAN, kind \in FailKinds}

\* the place of (By.ID, "okta-signin-username") in okta_yoink's username_selectors
SigninIdPlace == 3

\* a page whose username field answers to no lookup of the username role: of
\* okta_yoink's username_selectors only the id okta-signin-username resolves
\* (which also ends the readiness wait), the other roles' strategies all do
NoUsernamePages(rev) ==
    {[r \in Roles(rev) |->
         IF r = "probe" THEN Pattern(Len(StrategyList(rev, r)), SigninIdPlace, FALSE, kind)
         ELSE IF r = "username" THEN Pattern(Len(StrategyList(rev, r)), 0, FALSE, kind)
         ELSE Pattern(Len(StrategyList(rev, r)), 1, TRUE, "missing")] : kind \in FailKinds}

\* the pages: one role's strategies give any pattern, the other roles' all
\* resolve; and the pages whose username field no lookup finds
PageResults(rev) ==
    UNION {{[r \in Roles(rev) |->
                IF r = varied THEN p
                ELSE Pattern(Len(StrategyList(rev, r)), 1, TRUE, "missing")] :
            p \in Patterns(Len(StrategyList(rev, varied)))} : varied \in Roles(rev)}
    \cup NoUsernamePages(rev)

\* config.OKTA_PASSWORD exists: config.py's Config.__init__ sets OKTA_USERNAME
\* and no OKTA_PASSWORD
HasPasswordAttr(kind) == kind # "Config"

\* OKTA_USERNAME and OKTA_PASSWORD, "" when not configured
Credentials(kind) ==
    [username : {"", "alice"},
     password : IF HasPasswordAttr(kind) THEN {"", "pw"} ELSE {""}]

NoFields == [username |-> None, password |-> None, submit |-> None]

InitLogin ==
    /\ DirectCall("login_to_okta")
    /\ config = Cfg(GoodUrl, GoodUrl, 1, 1, 1)
    /\ cfgKind \in {"Config", "Mock"}
    /\ revision \in Revisions
    /\ \E ready \in BOOLEAN, res \in PageResults(revision), creds \in Credentials(cfgKind) :
          loginState = [st |-> "nav", ready |-> ready, res |-> res, creds |-> creds,
                        tried |-> <<>>, used |-> NoFields, ui |-> <<>>, exc |-> NoExc]
    /\ MfaIdle

\* the statement after st in the revision's order of login_to_okta
After(rev, st) ==
    IF rev = "okta_yoink"
    THEN CASE st = "nav" -> "wait"
           [] st = "wait" -> "probe"
           [] st = "probe" -> "username"
           [] st = "username" -> "password"
           [] st = "password" -> "ask_username"
           [] st = "ask_username" -> "ask_password"
           [] st = "ask_password" -> "fill_username"
           [] st = "fill_username" -> "fill_password"
           [] st = "fill_password" -> "submit"
           [] st = "submit" -> "returned"
    ELSE CASE st = "nav" -> "wait"
           [] st = "wait" -> "username"
           [] st = "username" -> "ask_username"
           [] st = "ask_username" -> "fill_username"
           [] st = "fill_username" -> "password"
           [] st = "password" -> "ask_password"
           [] st = "ask_password" -> "fill_password"
           [] st = "fill_password" -> "submit"
           [] st = "submit" -> "returned"

\* login_to_okta raises OktaTokenExtractionError from one of its except clauses
LoginRaise(ls, msg) == [ls EXCEPT !.st = "raised", !.exc = Raise(OTE, "login", msg)]

LoginFrame == UNCHANGED <<inputVars, runVars, ruleVars, validated, mfaState>>

\* driver.get(HTTPBIN_URL)
LoginGet ==
    /\ loginState.st = "nav"
    /\ loginState' = [loginState EXCEPT !.st = After(revision, "nav"),
                                       !.ui = Append(@, "get")]
    /\ LoginFrame

\* the TimeoutException of the readiness wait is caught next to the wait:
\* okta_token_automation wraps it in try/except TimeoutException and goes on
WaitTimeoutCaught(rev) == rev = "okta_token_automation"

\* the WebDriverWait for the Okta URL and the login form
LoginWait ==
    /\ loginState.st = "wait"
    /\ loginState' =
          IF loginState.ready \/ WaitTimeoutCaught(revision)
          THEN [loginState EXCEPT !.st = After(revision, "wait")]
          ELSE LoginRaise(loginState, "Timeout waiting for login page")
    /\ LoginFrame

\* the last strategy of the list that resolves, 0 if none
LastHit(r) ==
    IF \E i \in 1..Len(r) : r[i] = Hit THEN SetMax({i \in 1..Len(r) : r[i] = Hit}) ELSE 0

\* the strategy at which the loop breaks: the first that resolves, 0 if none
FirstHit(r) ==
    IF \E i \in 1..Len(r) : r[i] = Hit THEN SetMin({i \in 1..Len(r) : r[i] = Hit}) ELSE 0

\* the first strategy whose attempt fails, 0 if none
FirstFail(r) ==
    IF \E i \in 1..Len(r) : r[i] # Hit THEN SetMin({i \in 1..Len(r) : r[i] # Hit}) ELSE 0

\* the except clause of the loop raises itself: okta_yoink's first username
\* loop prints a counter i that login_to_okta never binds (NameError)
FailurePropagates(rev, role) == rev = "okta_yoink" /\ role = "probe"

\* one pass over the list of a role: how many strategies were attempted, which
\* one resolved, and whether an exception left the loop
Resolution(rev, role, r) ==
    LET h == FirstHit(r)
        f == FirstFail(r)
    IN  IF FailurePropagates(rev, role) /\ f # 0 /\ (h = 0 \/ f < h)
        THEN [tried |-> f, hit |-> 0, raised |-> TRUE]
        ELSE [tried |-> IF h = 0 THEN Len(r) ELSE h, hit |-> h, raised |-> FALSE]

\* the role's element is optional: okta_token_automation fills the password
\* only "if password_field" and goes on to the submit control
Optional(rev, role) == rev = "okta_token_automation" /\ role = "password"

\* the error of "if not username_field: raise ...", "if not password_field:
\* raise ..." and "if not submit_button: raise ...", as login_to_okta's
\* "except Exception" passes it on
CouldNotFind(role) ==
    CASE role = "username" ->
           "Error during login: Could not find username field with any known selector"
      [] role = "password" ->
           "Error during login: Could not find password field with any known selector"
      [] role = "submit" -> "Error during login: Could not find submit button"
      [] OTHER -> "Error during login"

\* loginState after the resolution of one role at its place in login_to_okta
Resolve(role) ==
    LET R  == Resolution(revision, role, loginState.res[role])
        ls == [loginState EXCEPT
                  !.tried = @ \o [i \in 1..R.tried |-> <<role, i>>]]
    IN  IF R.raised THEN LoginRaise(ls, "Error during login")
        ELSE IF R.hit = 0
        THEN IF Optional(revision, role) THEN [ls EXCEPT !.st = "submit"]
             ELSE LoginRaise(ls, CouldNotFind(role))
        ELSE IF role = "probe" THEN [ls EXCEPT !.st = After(revision, role)]
        ELSE [ls EXCEPT !.st = After(revision, role),
                        !.used[role] = StrategyList(revision, role)[R.hit],
                        !.ui = IF role = "submit" THEN Append(@, "click:submit") ELSE @]

\* okta_yoink's loop over username_selectors, whose element is then reset
LoginProbe ==
    /\ loginState.st = "probe"
    /\ loginState' = Resolve("probe")
    /\ LoginFrame

\* the username field
LoginUsername ==
    /\ loginState.st = "username"
    /\ loginState' = Resolve("username")
    /\ LoginFrame

\* the password field
LoginPassword ==
    /\ loginState.st = "password"
    /\ loginState' = Resolve("password")
    /\ LoginFrame

\* the submit control, and its click
LoginSubmit ==
    /\ loginState.st = "submit"
    /\ loginState' = Resolve("submit")
    /\ LoginFrame

\* "if not self.config.OKTA_USERNAME: username = input(...)"
LoginAskUsername ==
    /\ loginState.st = "ask_username"
    /\ loginState' = [loginState EXCEPT
                         !.st = After(revision, "ask_username"),
                         !.ui = IF loginState.creds.username = ""
                                THEN Append(@, "prompt:username") ELSE @]
    /\ LoginFrame

\* "if not self.config.OKTA_PASSWORD: password = input(...)"; the missing
\* attribute is an AttributeError for login_to_okta's "except Exception"
LoginAskPassword ==
    /\ loginState.st = "ask_password"
    /\ loginState' =
          IF ~HasPasswordAttr(cfgKind) THEN LoginRaise(loginState, "Error during login")
          ELSE [loginState EXCEPT
                   !.st = After(revision, "ask_password"),
                   !.ui = IF loginState.creds.password = ""
                          THEN Append(@, "prompt:password") ELSE @]
    /\ LoginFrame

\* username_field.clear(); username_field.send_keys(username)
LoginFillUsername ==
    /\ loginState.st = "fill_username"
    /\ loginState' = [loginState EXCEPT
                         !.st = After(revision, "fill_username"),
                         !.ui = @ \o <<"clear:username", "fill:username">>]
    /\ LoginFrame

\* password_field.clear(); password_field.send_keys(password)
LoginFillPassword ==
    /\ loginState.st = "fill_password"
    /\ loginState' = [loginState EXCEPT
                         !.st = After(revision, "fill_password"),
                         !.ui = @ \o <<"clear:password", "fill:password">>]
    /\ LoginFrame

NextLogin ==
    \/ LoginGet
    \/ LoginWait
    \/ LoginProbe
    \/ LoginUsername
    \/ LoginPassword
    \/ LoginAskUsername
    \/ LoginAskPassword
    \/ LoginFillUsername
    \/ LoginFillPassword
    \/ LoginSubmit

SpecLogin == InitLogin /\ [][NextLogin]_vars

(***************************************************************************)
(* handle_mfa, called after the login form was submitted.  Time is counted *)
(* in ticks of half a second from the start of the wait for completion.    *)
(***************************************************************************)
MaxMfaTimeout == 3

MaxImplicitWait == 2

TicksPerSecond == 2

\* time.sleep(2) at the end of an iteration of okta_token_automation's loop
SleepSeconds == 2

\* the poll frequency of okta_yoink's WebDriverWait, half a second
WaitPollTicks == 1

\* the ticks of one polling interval
PollTicks(rev) ==
    IF rev = "okta_yoink" THEN WaitPollTicks ELSE SleepSeconds * TicksPerSecond

\* where the browser is when its URL is read: still on the challenge page the
\* wait started on, at the echo endpoint, or on a page whose URL has a login
\* marker ("signin", "login", "oauth2/default/v1/authorize"), with or without a
\* field named "identifier"
Locations ==
    {[url |-> "challenge", field |-> FALSE], [url |-> "httpbin", field |-> FALSE],
     [url |-> "login", field |-> TRUE], [url |-> "login", field |-> FALSE]}

NoLocation == [url |-> "", field |-> FALSE]

InitMfa ==
    /\ DirectCall("handle_mfa")
    /\ cfgKind = "Config"
    /\ revision \in Revisions
    /\ \E implicit \in 1..MaxImplicitWait, timeout \in 1..MaxMfaTimeout :
          config = Cfg(GoodUrl, GoodUrl, 1, implicit, timeout)
    /\ \E option \in BOOLEAN :
          mfaState = [st |-> "prepare", t |-> 0, seen |-> NoLocation, sawLogin |-> FALSE,
                      exc |-> NoExc, named |-> 0, option |-> option, ui |-> <<>>]
    /\ LoginIdle

MfaFrame == UNCHANGED <<inputVars, runVars, ruleVars, validated, loginState>>

\* what precedes the choice of the security-key option: the settling waits and
\* sleeps, and the lookup of the option's control (okta_token_automation:
\* _find_mfa_options_with_soup; okta_yoink: two waits for a clickable element,
\* whose failures are caught).  Without the control the wait for completion
\* begins at once.
MfaPrepare ==
    /\ mfaState.st = "prepare"
    /\ mfaState' = [mfaState EXCEPT !.st = IF mfaState.option THEN "select" ELSE "poll"]
    /\ MfaFrame

\* the statements between yubikey_button.click() and the sleep after it:
\* okta_yoink runs window.focus() and document.body.focus() in the page,
\* okta_token_automation has no statement there
AfterClick(rev) ==
    IF rev = "okta_yoink" THEN <<"focus:window", "focus:body">> ELSE <<>>

\* "if yubikey_button:": the click, what follows it, and the sleep; start_time
\* (okta_yoink: the WebDriverWait) begins after it
MfaSelect ==
    /\ mfaState.st = "select"
    /\ mfaState' = [mfaState EXCEPT !.st = "poll",
                                    !.ui = @ \o <<"click:option">> \o AfterClick(revision)]
    /\ MfaFrame

\* the completion test: okta_token_automation looks for the echo host in the
\* URL, okta_yoink for a URL other than the one the wait started on
Completed(rev, loc) ==
    IF rev = "okta_yoink" THEN loc.url # "challenge" ELSE loc.url = "httpbin"

\* the wait is over: "while time.time() - start_time < MFA_TIMEOUT" is false,
\* or WebDriverWait finds "time.monotonic() > end_time" after its sleep
Expired(rev, t, timeout) ==
    IF rev = "okta_yoink" THEN t > timeout * TicksPerSecond
    ELSE t >= timeout * TicksPerSecond

\* the bare "except:" around the lookup of the username field catches every
\* exception raised in its try
BareExceptCatches(type) == TRUE

\* the exception that leaves the test for a login page: okta_token_automation
\* raises "MFA failed" inside the try of the lookup, okta_yoink has no such test
BackAtLogin(rev, loc) ==
    IF rev = "okta_token_automation" /\ loc.url = "login" /\ loc.field
       /\ ~BareExceptCatches(OTE)
    THEN Raise(OTE, "mfa", "MFA failed") ELSE NoExc

\* the ticks find_element(By.NAME, "identifier") takes: it returns at once
\* when the field is there and gives up after the implicit wait when not
LookupTicks(rev, loc, implicit) ==
    IF rev = "okta_token_automation" /\ loc.url = "login" /\ ~loc.field
    THEN implicit * TicksPerSecond ELSE 0

\* handle_mfa returns when every call returned
AlwaysReturns(completed) == "returned"

\* the end of handle_mfa once the wait is over: "if not mfa_completed: raise",
\* the TimeoutException of WebDriverWait.until
OnExpiry(completed) == IF completed THEN "returned" ELSE "raised"

\* one reading of the URL while the wait is not over, and the sleep after it
MfaPoll ==
    /\ mfaState.st = "poll"
    /\ ~Expired(revision, mfaState.t, config.MFA_TIMEOUT)
    /\ \E loc \in Locations :
          LET saw == mfaState.sawLogin \/ (loc.url = "login" /\ loc.field)
              ms  == [mfaState EXCEPT !.seen = loc, !.sawLogin = saw]
          IN  mfaState' =
                 IF Completed(revision, loc)
                 THEN [ms EXCEPT !.st = OnExpiry(TRUE)]
                 ELSE IF BackAtLogin(revision, loc) # NoExc
                 THEN [ms EXCEPT !.st = "raised", !.exc = BackAtLogin(revision, loc)]
                 ELSE [ms EXCEPT !.t = @ + LookupTicks(revision, loc, config.IMPLICIT_WAIT)
                                         + PollTicks(revision)]
    /\ MfaFrame

\* the wait is over and completion was not seen: OktaTokenExtractionError with
\* "MFA timeout after {MFA_TIMEOUT}s" in its message (named is that number)
MfaTimeout ==
    /\ mfaState.st = "poll"
    /\ Expired(revision, mfaState.t, config.MFA_TIMEOUT)
    /\ mfaState' = [mfaState EXCEPT
                       !.st = OnExpiry(FALSE),
                       !.exc = IF OnExpiry(FALSE) = "raised"
                               THEN Raise(OTE, "mfa", "MFA timeout") ELSE NoExc,
                       !.named = IF OnExpiry(FALSE) = "raised"
                                 THEN config.MFA_TIMEOUT ELSE @]
    /\ MfaFrame

NextMfa == MfaPrepare \/ MfaSelect \/ MfaPoll \/ MfaTimeout

SpecMfa == InitMfa /\ [][NextMfa]_vars

\* handle_mfa is sequential code whose every call returns: sleeps end, a
\* lookup ends after the implicit wait, the URL is read at once
SpecMfaFair == SpecMfa /\ WF_vars(NextMfa)

(***************************************************************************)
(* Properties of a run                                                     *)
(***************************************************************************)
InEvents(e) == \E i \in 1..Len(events) : events[i] = e

\* the position of the first call named e
Pos(e) == SetMin({i \in 1..Len(events) : events[i] = e})

\* empty URL or non-positive timeout
InvalidConfig(c) ==
    \/ c.OKTA_LOGIN_URL = ""
    \/ c.HTTPBIN_URL = ""
    \/ c.BROWSER_TIMEOUT <= 0
    \/ c.IMPLICIT_WAIT <= 0
    \/ c.MFA_TIMEOUT <= 0

\* C1: when a step of run() after the creation of the browser session fails,
\* driver.quit() has been called exactly once by the time the failure is with
\* the caller of run(), and the count stays at one through __exit__'s second
\* cleanup() and main()'s return; quit() is never called more often than
\* sessions were created.
C1_TeardownExactlyOnce ==
    /\ quitCalls <= created
    /\ (outcome.kind = "error" /\ created = 1) => (quitCalls = 1 /\ driver = None)

\* a failing save_token inside main()'s with block, after __exit__ and the return
C1_Witness ==
    /\ pc = "done"
    /\ caller = "main"
    /\ outcome.kind = "error"
    /\ outcome.exc.origin = "save"
    /\ events[Len(events)] = "quit"
    /\ quitCalls = 1

\* a world in which every step of run() succeeds, so that run() returns a token
C2_RunSucceeds ==
    /\ config = Cfg(GoodUrl, GoodUrl, 1, 1, 1)
    /\ world = DefaultWorld

\* C2: with config.py's Config class, main() returns 0 when Config() succeeds
\* and run() returns a token, and 1 when Config() raises or the run fails.
C2_MainExitCode ==
    (pc = "done" /\ caller = "main" /\ cfgKind = "Config") =>
        /\ (~cfgRaises /\ C2_RunSucceeds) => exitCode = <<0>>
        /\ cfgRaises => exitCode = <<1>>
        /\ outcome.kind = "error" => exitCode = <<1>>

\* C3: with an invalid configuration the constructor raises validate()'s
\* ValueError, setup_driver is never called and no browser session ever exists;
\* when Config() raises, main() never constructs the extractor.
C3_InvalidConfigFatal ==
    /\ InvalidConfig(config) =>
          /\ created = 0
          /\ driver = None
          /\ ~InEvents("setup_driver")
          /\ InEvents("construct") =>
                (exc.type = "ValueError" /\ exc.origin = "validate" /\ pc \in {"handlers", "done"})
    /\ cfgRaises => (~InEvents("construct") /\ created = 0)

\* the constructor has raised on a configuration with a zero timeout
C3_Witness ==
    /\ pc = "done"
    /\ config.BROWSER_TIMEOUT = 0
    /\ InEvents("construct")
    /\ exc.type = "ValueError"
    /\ created = 0

\* the ways the cookie-replay strategy fails
ReplayFails ==
    \/ world.replay.kind \in {"network_error", "http_error", "bad_json"}
    \/ world.replay.kind = "headers" /\ world.replay.headers \in {MapEmpty, MapNoToken}

\* the ways the page-scrape strategy fails
ScrapeFails ==
    \/ world.scrape.kind \in {"timeout", "no_element", "empty_body", "bad_json"}
    \/ world.scrape.kind = "headers" /\ world.scrape.headers \in {MapEmpty, MapNoToken}

\* C5: once the cookie-replay strategy has failed, no exception is in flight
\* and nothing has reached the caller before the page-scrape strategy was
\* called; when both fail, the exception that reaches the caller is the
\* page-scrape strategy's.
C5_FallbackBeforeFailure ==
    (InEvents("replay") /\ ReplayFails) =>
        /\ (exc # NoExc \/ outcome.kind # "none") => InEvents("scrape")
        /\ (ScrapeFails /\ outcome.kind = "error") =>
              /\ outcome.exc.origin = "scrape"
              /\ outcome.exc.type = OTE
              /\ outcome.exc.msg = FromInternalService(revision, "session", world.scrape).msg

\* a network error in the replay, then a scrape that fails and reaches the caller
C5_Witness ==
    /\ pc = "done"
    /\ world.replay.kind = "network_error"
    /\ world.scrape.kind = "no_element"
    /\ InEvents("scrape")
    /\ outcome.kind = "error"
    /\ outcome.exc.origin = "scrape"

\* the token in the answer MapCookieA
TokenA == CookiePrefix \o <<"A", "1">>

\* C6: the page-scrape strategy is never called before the cookie-replay
\* strategy; when cookie-replay returned a token, page-scrape is never called,
\* the browser is navigated to the echo endpoint no more than login did, and
\* the token written to the file (which before the write holds what an earlier
\* run left there, if anything) and returned by run() is that token.
C6_ReplayFirst ==
    /\ InEvents("scrape") => (InEvents("replay") /\ Pos("replay") < Pos("scrape"))
    /\ (InEvents("replay") /\ world.replay = Resp("headers", MapCookieA)) =>
          /\ ~InEvents("scrape")
          /\ echoNavs = 1
          /\ token = TokenA
          /\ outcome.kind = "token" => outcome.token = TokenA
          /\ tokenFile.content \notin {<<>>, FileBefore(world.file).content} =>
                 tokenFile.content = TokenA

\* run() returned the replay's token and the file holds it
C6_Witness ==
    /\ pc = "done"
    /\ world.replay = Resp("headers", MapCookieA)
    /\ outcome.kind = "token"
    /\ outcome.token = TokenA
    /\ tokenFile.content = TokenA
    /\ ~InEvents("scrape")

(***************************************************************************)
(* Properties of Config.validate()                                         *)
(***************************************************************************)
\* C4: validate() raises ValueError exactly when a URL is empty or a timeout
\* is zero or negative, returns otherwise, and leaves every field as it was.
C4_ValidateIff ==
    [][validated'.st # "idle" =>
          /\ config' = config
          /\ (validated'.st = "raised") <=> InvalidConfig(config)
          /\ (validated'.st = "returned") <=> ~InvalidConfig(config)
          /\ (validated'.st = "raised") => validated'.exc.type = "ValueError"]_vars

\* validate() has raised on a zero MFA timeout, all else valid
C4_Witness ==
    /\ validated.st = "raised"
    /\ validated.exc.type = "ValueError"
    /\ config = Cfg(GoodUrl, GoodUrl, 1, 1, 0)

(***************************************************************************)
(* Properties of the token location rule, stated on the header map alone   *)
(***************************************************************************)
HasHeader(h, name) == \E i \in 1..Len(h) : h[i].name = name

ValueOf(h, name) == h[CHOOSE i \in 1..Len(h) : h[i].name = name].value

\* a header value as text: a list joined with the separator
AsText(v, sep) == IF v.kind = "list" THEN Join(v.val, sep) ELSE v.val

\* the ";"-delimited entries of the Cookie header, trimmed
EntriesOf(h) ==
    LET parts == Split(AsText(ValueOf(h, NameCookie), <<";", " ">>), ";")
    IN  [i \in 1..Len(parts) |-> Strip(parts[i])]

\* the entries named _oauth2_proxy whose value is not blank
NamedEntries(h) ==
    LET entries == EntriesOf(h)
    IN  {e \in {entries[i] : i \in 1..Len(entries)} :
            /\ HasChar(e, "=")
            /\ BeforeFirst(e, "=") = CookieName
            /\ Strip(AfterFirst(e, "=")) # <<>>}

RuleAYields(h) == HasHeader(h, NameCookie) /\ NamedEntries(h) # {}

\* the value of the first such entry
RuleAValue(h) ==
    LET entries == EntriesOf(h)
        first == SetMin({i \in 1..Len(entries) : entries[i] \in NamedEntries(h)})
    IN  AfterFirst(entries[first], "=")

\* the headers whose name holds "oauth2" and "proxy" in any case
ProxyHeaders(h) ==
    {i \in 1..Len(h) : /\ Contains(Lower(h[i].name), Oauth2Lit)
                       /\ Contains(Lower(h[i].name), ProxyLit)}

\* rule (b) has a string-valued header to read
RuleBApplies(h) == ProxyHeaders(h) # {} /\ h[SetMin(ProxyHeaders(h))].value.kind = "str"

\* v: the value after its first "=", or whole without one
RuleBValue(h) ==
    LET val == h[SetMin(ProxyHeaders(h))].value.val
    IN  IF HasChar(val, "=") THEN AfterFirst(val, "=") ELSE val

\* rule (b) gives nothing: no such header, or an empty one, or a blank v
RuleBSilent(h) ==
    \/ ProxyHeaders(h) = {}
    \/ h[SetMin(ProxyHeaders(h))].value.val = <<>>
    \/ RuleBApplies(h) /\ Strip(RuleBValue(h)) = <<>>

\* the Authorization header as text, "" without one
AuthText(h) ==
    IF HasHeader(h, NameAuthorization) THEN AsText(ValueOf(h, NameAuthorization), <<" ">>)
    ELSE <<>>

\* rule (c) applies: the text holds the cookie name in any case, and "="
RuleCApplies(h) == Contains(Lower(AuthText(h)), CookieName) /\ HasChar(AuthText(h), "=")

RuleCValue(h) == AfterFirst(AuthText(h), "=")

Strategies == {"requests", "scrape"}

IsToken(out, value) == out.kind = "token" /\ out.token = CookiePrefix \o value

\* C7: whenever the Cookie header, a string or a list joined with "; ", has an
\* entry named _oauth2_proxy with a value that is not blank, each strategy
\* returns "_oauth2_proxy=" and the value of the first such entry, whatever
\* the other headers are.
C7_CookieRule ==
    \A st \in Strategies :
        (applied[st] # NotApplied /\ RuleAYields(hdrs))
            => IsToken(applied[st], RuleAValue(hdrs))

C8_BlankValue ==
    /\ Len(hdrs) = 1
    /\ RuleBApplies(hdrs)
    /\ RuleBValue(hdrs) = <<" ">>
    /\ applied.scrape.kind = "error"

\* C9: rules (a) and (b) silent and an Authorization header, a string or a
\* list joined with spaces, that holds "_oauth2_proxy" in any case and "="
\* give "_oauth2_proxy=" and the part after the first "=", in both strategies;
\* an Authorization header without the cookie name gives no token.
C9_AuthorizationRule ==
    \A st \in Strategies :
        (applied[st] # NotApplied /\ ~RuleAYields(hdrs) /\ RuleBSilent(hdrs)) =>
            /\ (RuleCApplies(hdrs) /\ Strip(RuleCValue(hdrs)) # <<>>)
                  => IsToken(applied[st], RuleCValue(hdrs))
            /\ ~Contains(Lower(AuthText(hdrs)), CookieName) => applied[st].kind # "token"

\* the preview of the Cookie header: its first 200 characters and "..."
PreviewOf(h) ==
    LET text == IF HasHeader(h, NameCookie)
                THEN AsText(ValueOf(h, NameCookie), <<";", " ">>) ELSE <<>>
    IN  IF Len(text) > PreviewLimit THEN SubSeq(text, 1, PreviewLimit) \o Ellipsis ELSE text

\* C10: on a header map that is not empty and on which rules (a), (b) and (c)
\* are silent, each strategy fails with the token-not-found error, which
\* carries the header names and a preview of the Cookie header of at most 200
\* characters and an ellipsis.
C10_TokenNotFound ==
    \A st \in Strategies :
        (/\ applied[st] # NotApplied
         /\ hdrs # <<>>
         /\ ~RuleAYields(hdrs)
         /\ RuleBSilent(hdrs)
         /\ ~(RuleCApplies(hdrs) /\ Strip(RuleCValue(hdrs)) # <<>>)) =>
            /\ applied[st].kind = "error"
            /\ applied[st].type = OTE
            /\ applied[st].msg = "No _oauth2_proxy token found in response"
            /\ applied[st].names = [k \in 1..Len(hdrs) |-> hdrs[k].name]
            /\ applied[st].preview = PreviewOf(hdrs)
            /\ Len(applied[st].preview) <= PreviewLimit + Len(Ellipsis)

(***************************************************************************)
(* Persisting the token and teardown                                       *)
(***************************************************************************)
\* save_token has returned normally: run() is past its last step with no
\* exception in flight
SaveReturned ==
    /\ InEvents("save")
    /\ pc \in {"run_finally", "exit_ctx", "handlers", "done"}
    /\ exc = NoExc

\* C11: after save_token returns normally the token file exists, with its
\* parent directory, holds exactly the token and has mode 0600, whatever was
\* there before.
C11_FileAfterSave ==
    SaveReturned =>
        tokenFile = [dir |-> TRUE, exists |-> TRUE, content |-> token, mode |-> "600"]

\* a save over a file left with another token and mode 0644; the saves into a
\* missing directory are reached as well (world.file = "no_dir")
C11_Witness ==
    /\ SaveReturned
    /\ world.file = "stale"
    /\ FileBefore(world.file).content # token
    /\ FileBefore(world.file).mode = "644"
    /\ tokenFile.content = token
    /\ tokenFile.mode = "600"

\* C12: after save_token returns normally the environment variable named by
\* TOKEN_ENV_VAR holds the token that was written to the file.
C12_EnvironAfterSave ==
    SaveReturned => (environ = token /\ environ = tokenFile.content)

\* the outcome that reaches the caller of run() carries the token t.  The
\* message of a save failure is the fixed text and the text of the OS error,
\* so a failure carries a token only in its token field.
MakesKnown(o, t) == o.token = t

\* C13: when the token was extracted and persisting it failed, the failure
\* that reaches the caller of run() still makes the extracted token known.
C13_TokenSurvivesSaveFailure ==
    (outcome.kind = "error" /\ outcome.exc.origin = "save" /\ token # NoToken) =>
        MakesKnown(outcome, token)

\* the steps that run cleanup()
CleanupSteps == {"run_finally", "exit_ctx"}

\* C14: cleanup() never lets a failure of quit() out: the exception in flight
\* (or none) is the one from before the teardown, the outcome of run() is the
\* one the steps before the teardown decided, the driver is None afterwards,
\* and without a driver cleanup() calls and logs nothing.
C14_TeardownNeverEscalates ==
    [][(pc \in CleanupSteps) =>
          /\ exc' = exc
          /\ driver' = None
          /\ pc = "run_finally" =>
                 outcome' = IF exc = NoExc THEN Returned(token) ELSE Failed(exc)
          /\ pc = "exit_ctx" => outcome' = outcome
          /\ driver = None => (quitCalls' = quitCalls /\ events' = events)]_vars

\* a run that returned its token although quit() raised during the teardown
C14_Witness ==
    /\ pc = "done"
    /\ world.quit = "raise"
    /\ InEvents("warning")
    /\ quitCalls = 1
    /\ driver = None
    /\ outcome = Returned(token)
    /\ token # NoToken

(***************************************************************************)
(* Properties of login_to_okta                                             *)
(***************************************************************************)
LoginOver == loginState.st \in {"raised", "returned"}

\* the positions in the log of UI actions at which a is
UiAt(a) == {i \in 1..Len(loginState.ui) : loginState.ui[i] = a}

\* the prompts, in order
Prompts == SelectSeq(loginState.ui, LAMBDA a : a \in {"prompt:username", "prompt:password"})

\* the strategies of a role that were attempted
TriedOf(role) ==
    {loginState.tried[i][2] : i \in {j \in 1..Len(loginState.tried) :
                                       loginState.tried[j][1] = role}}

\* C15: when the login form does not become ready within the wait after the
\* navigation, login_to_okta raises the login-timeout error and has resolved no
\* field, prompted for nothing, filled nothing and clicked nothing.
C15_NotReadyIsTimeout ==
    (loginState.st \notin {"idle", "nav", "wait"} /\ ~loginState.ready) =>
        /\ loginState.st = "raised"
        /\ loginState.exc = Raise(OTE, "login", "Timeout waiting for login page")
        /\ loginState.tried = <<>>
        /\ loginState.ui = <<"get">>

\* username, password and submit control all resolve on the page
AllResolve ==
    \A role \in {"username", "password", "submit"} :
        \E i \in 1..Len(loginState.res[role]) : loginState.res[role][i] = Hit

\* C18: with config.py's Config and a page where the three roles resolve,
\* login_to_okta returns normally, having prompted once for the password when a
\* username is configured and for username then password when none is, and
\* having cleared and filled the username, then the password, before the click.
C18_ConfigLoginReturns ==
    (LoginOver /\ cfgKind = "Config" /\ loginState.ready /\ AllResolve
       /\ loginState.res = [r \in Roles(revision) |->
                               Pattern(Len(StrategyList(revision, r)), 1, TRUE, "missing")]) =>
        /\ loginState.st = "returned"
        /\ Prompts = IF loginState.creds.username = "" 
                     THEN <<"prompt:username", "prompt:password">>
                     ELSE <<"prompt:password">>
        /\ \E u \in UiAt("fill:username"), w \in UiAt("fill:password"),
              c \in UiAt("click:submit") :
              /\ u - 1 \in UiAt("clear:username")
              /\ w - 1 \in UiAt("clear:password")
              /\ u < w /\ w < c

\* C19: for each role the strategies attempted are those up to the first one
\* that resolves and none after it, and the element used for the role is the
\* one that strategy found.
C19_FirstMatchWins ==
    \A role \in (IF loginState.st = "idle" THEN {} ELSE Roles(revision)) :
        LET r == loginState.res[role]
            first(i) == r[i] = Hit /\ \A j \in 1..(i - 1) : r[j] # Hit
        IN  /\ \A i \in TriedOf(role) : \A j \in 1..(i - 1) : r[j] # Hit
            /\ (role # "probe" /\ loginState.used[role] # None) =>
                  \E i \in 1..Len(r) :
                      /\ first(i)
                      /\ loginState.used[role] = StrategyList(revision, role)[i]
                      /\ TriedOf(role) = 1..i

\* a login that returned on a page whose password strategies 2 and 4 both
\* resolve and whose first does not: the second was used, the fourth not tried
C19_Witness ==
    /\ loginState.st = "returned"
    /\ loginState.res["password"][1] # Hit
    /\ loginState.res["password"][2] = Hit
    /\ loginState.res["password"][4] = Hit
    /\ loginState.used["password"] = StrategyList(revision, "password")[2]
    /\ TriedOf("password") = {1, 2}

\* C20: a failed locate attempt of one strategy is not propagated: when a
\* strategy that is not the last of its list fails, the next one is attempted.
C20_FailedAttemptGoesOn ==
    \A role \in (IF loginState.st = "idle" THEN {} ELSE Roles(revision)) :
        \A i \in TriedOf(role) :
            (loginState.res[role][i] # Hit /\ i < Len(loginState.res[role])) =>
                i + 1 \in TriedOf(role)

(***************************************************************************)
(* Properties of handle_mfa                                                *)
(***************************************************************************)
MfaOver == mfaState.st \in {"returned", "raised"}

\* C16: when the browser is seen back on a login page (login marker in the URL
\* and the username field present) during the wait, handle_mfa fails at once
\* with the MFA-failed error: it neither polls on nor returns normally.
C16_BackAtLoginFails ==
    mfaState.sawLogin =>
        /\ mfaState.st = "raised"
        /\ mfaState.exc = Raise(OTE, "mfa", "MFA failed")

\* completion as the revision defines it was read from the browser
SawCompletion ==
    IF revision = "okta_yoink" THEN mfaState.seen.url \in {"httpbin", "login"}
    ELSE mfaState.seen.url = "httpbin"

\* handle_mfa returns only after completion was seen, and without completion
\* it ends in the MFA-timeout error that names config.MFA_TIMEOUT
TimeoutRaises ==
    MfaOver =>
        /\ mfaState.st = "returned" => SawCompletion
        /\ ~SawCompletion =>
              /\ mfaState.st = "raised"
              /\ mfaState.exc = Raise(OTE, "mfa", "MFA timeout")
              /\ mfaState.named = config.MFA_TIMEOUT

\* the ticks one lookup of the username field can block, which only
\* okta_token_automation's loop makes
LookupBound ==
    IF revision = "okta_token_automation" THEN config.IMPLICIT_WAIT * TicksPerSecond ELSE 0

\* C17 as stated: handle_mfa terminates, a wait that runs out ends in the
\* MFA-timeout error and never in a normal return, and the wait is never longer
\* than MFA_TIMEOUT plus one polling interval.
C17_BoundOnePoll ==
    /\ [](TimeoutRaises
          /\ (mfaState.st # "idle" =>
                 mfaState.t <= config.MFA_TIMEOUT * TicksPerSecond + PollTicks(revision)))
    /\ <>MfaOver

\* C17, amended: handle_mfa terminates, a wait that runs out ends in the
\* MFA-timeout error and never in a normal return, and the wait is never longer
\* than MFA_TIMEOUT plus one polling interval plus one implicit wait of the
\* username lookup that okta_token_automation makes on a login-like URL.
C17_BoundPollAndLookup ==
    /\ [](TimeoutRaises
          /\ (mfaState.st # "idle" =>
                 mfaState.t <= config.MFA_TIMEOUT * TicksPerSecond + PollTicks(revision)
                               + LookupBound))
    /\ <>MfaOver

\* a wait that ran out later than MFA_TIMEOUT plus one polling interval
C17_Witness ==
    /\ mfaState.st = "raised"
    /\ mfaState.exc = Raise(OTE, "mfa", "MFA timeout")
    /\ mfaState.named = config.MFA_TIMEOUT
    /\ mfaState.t > config.MFA_TIMEOUT * TicksPerSecond + PollTicks(revision)

(***************************************************************************)
(* Properties of the token file over a run                                 *)
(***************************************************************************)
\* the token file holds the token this run extracted
FileHoldsToken ==
    /\ token # NoToken
    /\ InEvents("save")
    /\ tokenFile.exists
    /\ tokenFile.content = FileText(token)

\* C28: in every state in which the token file holds the token, between the
\* write and the chmod and after a save that failed part-way included, the
\* file's permission bits are 0600.
C28_TokenFileAlwaysPrivate == FileHoldsToken => tokenFile.mode = "600"

\* the number of calls of save_token in the run
SaveCalls == Cardinality({i \in 1..Len(events) : events[i] = "save"})

\* handle_mfa returned normally: run() went on to the first extraction
MfaReturned ==
    /\ InEvents("mfa")
    /\ InEvents("replay")
    /\ Pos("mfa") < Pos("replay")
    /\ world.mfa = "ok"

\* C29: a run that fails before save_token is called leaves the token file and
\* the environment exactly as they were; save_token is called at most once in
\* a run, and only after handle_mfa returned normally and an extraction
\* returned a token.
C29_NothingPersistedBeforeSave ==
    /\ ~InEvents("save") => (tokenFile = FileBefore(world.file) /\ environ = NoToken)
    /\ SaveCalls <= 1
    /\ (pc = "save" \/ InEvents("save")) =>
          /\ MfaReturned
          /\ token # NoToken
          /\ Pos("replay") < (IF InEvents("save") THEN Pos("save") ELSE Len(events) + 1)

\* a run that failed in the fallback extraction, an earlier token file untouched
C29_Witness ==
    /\ outcome.kind = "error"
    /\ outcome.exc.origin = "scrape"
    /\ ~InEvents("save")
    /\ world.file = "stale"
    /\ tokenFile = FileBefore("stale")

(***************************************************************************)
(* Properties of the rule across the two strategies                        *)
(***************************************************************************)
\* both strategies were applied to the header map
BothApplied == applied.requests # NotApplied /\ applied.scrape # NotApplied

\* two results of the rule are the same outcome: the same token, or the same
\* kind of failure with the same diagnosis (the wording of a wrapped error
\* names the strategy and is left out of the comparison)
SameOutcome(a, b) ==
    /\ a.kind = b.kind
    /\ a.kind = "token" => a.token = b.token
    /\ a.kind = "error" =>
          /\ a.type = b.type
          /\ a.names = b.names
          /\ a.preview = b.preview
          /\ (a.msg = NotFound(hdrs).msg) = (b.msg = NotFound(hdrs).msg)

\* C27: the token location rule is one function of the header map: for the
\* same map the replay strategy and the scrape strategy give the same outcome.
C27_OneRuleBothStrategies ==
    BothApplied => SameOutcome(applied.requests, applied.scrape)

\* the value part of a returned token
TokenValue(t) == SubSeq(t, Len(CookiePrefix) + 1, Len(t))

\* a result of a strategy is a failure or a well-formed token
WellFormed(res) ==
    res.kind = "token" =>
        /\ StartsWith(res.token, CookiePrefix)
        /\ Strip(TokenValue(res.token)) # <<>>

\* C30: every token either strategy returns for any header map is
\* "_oauth2_proxy=" followed by a value that is not empty after trimming: never
\* an empty token, never another cookie's name.
C30_TokenWellFormed ==
    /\ applied.requests # NotApplied => WellFormed(applied.requests)
    /\ applied.scrape # NotApplied => WellFormed(applied.scrape)

\* both strategies returned a token found among several cookies
C30_Witness ==
    /\ BothApplied
    /\ applied.requests.kind = "token"
    /\ applied.scrape.kind = "token"
    /\ applied.requests.token = applied.scrape.token
    /\ Get(hdrs, NameCookie).kind = "str"
    /\ HasChar(Get(hdrs, NameCookie).val, ";")

(***************************************************************************)
(* Properties of login_to_okta when a role does not resolve                *)
(***************************************************************************)
\* no strategy of the role resolves on the page
NoneResolves(role) == \A i \in 1..Len(loginState.res[role]) : loginState.res[role][i] # Hit

\* the loops login_to_okta makes for a required role: okta_yoink goes through
\* username_selectors before the lookups of the username field proper
LoopsOf(role) ==
    IF role = "username" /\ revision = "okta_yoink" THEN {"probe", "username"} ELSE {role}

\* the resolution of a required role was begun and nothing resolves for it
Exhausts(role) ==
    /\ LoginOver
    /\ NoneResolves(role)
    /\ \E l \in LoopsOf(role) : TriedOf(l) # {}

C22_PasswordOptional ==
    (LoginOver /\ TriedOf("password") # {} /\ NoneResolves("password")) =>
        /\ loginState.st = "returned"
        /\ UiAt("prompt:password") = {}
        /\ UiAt("fill:password") = {}
        /\ loginState.used["submit"] # None
        /\ UiAt("click:submit") # {}

(***************************************************************************)
(* Properties of handle_mfa: completion and the security-key option        *)
(***************************************************************************)
\* C23: handle_mfa returns normally if and only if, before the MFA timeout,
\* the browser was seen at the echo service's domain (the domain of
\* HTTPBIN_URL); no other change of location counts as success.
C23_ReturnsIffOnTarget ==
    MfaOver => (mfaState.st = "returned" <=> mfaState.seen.url = "httpbin")

\* the places in handle_mfa's log of actions on the page at which a is
MfaUiAt(a) == {i \in 1..Len(mfaState.ui) : mfaState.ui[i] = a}

\* C24: whenever the security-key option is found and clicked in handle_mfa,
\* the focus of the page and of its document is restored after the click and
\* before the wait for completion begins.
C24_FocusRestoredAfterClick ==
    (mfaState.st \in {"poll", "returned", "raised"} /\ MfaUiAt("click:option") # {}) =>
        \E c \in MfaUiAt("click:option"), w \in MfaUiAt("focus:window"),
           d \in MfaUiAt("focus:body") : c < w /\ c < d

(***************************************************************************)
(* Properties of run()'s exceptions and of the browser sessions            *)
(***************************************************************************)
\* run() was entered: setup_driver is its first statement
RunEntered == InEvents("setup_driver")

\* C25: any exception other than an interrupt raised at any step of run()
\* reaches the caller as an OktaTokenExtractionError that carries the
\* underlying cause (here: the step it came from); run() lets no other
\* Exception type escape.
C25_OnlyExtractionErrorEscapes ==
    /\ []((RunEntered /\ outcome.kind = "error" /\ outcome.exc.type # "KeyboardInterrupt")
              => outcome.exc.type = OTE)
    /\ [][(pc = "run_except" /\ IsException(exc.type))
             => (exc'.type = OTE /\ exc'.origin = exc.origin)]_vars

\* the OSError of setup_driver reached run()'s caller as an
\* OktaTokenExtractionError
C25_Witness ==
    /\ outcome.kind = "error"
    /\ world.driver = "tmpdir_fail"
    /\ outcome.exc = Raise(OTE, "setup_driver", "Token extraction failed")

(***************************************************************************)
(* Sequences of calls of the extractor's public operations on one object:   *)
(* setup_driver(), run(), cleanup() and the exit of a with statement        *)
(***************************************************************************)
MaxCalls == 4

InitCalls ==
    /\ caller = "library"
    /\ cfgKind = "Config"
    /\ cfgRaises = FALSE
    /\ config = Cfg(GoodUrl, GoodUrl, 1, 1, 1)
    /\ revision \in Revisions
    /\ world = DefaultWorld
    /\ pc = "calls"
    /\ driver = None
    /\ exc = NoExc
    /\ token = NoToken
    /\ outcome = NoOutcome
    /\ exitCode = <<>>
    /\ events = <<>>
    /\ quitCalls = 0
    /\ created = 0
    /\ echoNavs = 0
    /\ tokenFile = Absent
    /\ environ = NoToken
    /\ RuleIdle
    /\ ValidateIdle
    /\ LoginIdle
    /\ MfaIdle

\* what setup_driver() does to self.driver when the browser does d: it assigns
\* the new session without looking at the value self.driver has
AssignDriver(d) ==
    CASE d = "ok" ->
           driver' = "session" /\ created' = created + 1 /\ exc' = NoExc
      [] d = "wait_fail" ->
           /\ driver' = "session" /\ created' = created + 1
           /\ exc' = Raise(OTE, "setup_driver", "Failed to initialize Chrome WebDriver")
      [] d = "fail" ->
           /\ UNCHANGED <<driver, created>>
           /\ exc' = Raise(OTE, "setup_driver", "Failed to initialize Chrome WebDriver")
      [] d = "tmpdir_fail" ->
           /\ UNCHANGED <<driver, created>>
           /\ exc' = Raise("OSError", "setup_driver", "No usable temporary directory")

CallsFrame ==
    /\ UNCHANGED <<token, outcome, exitCode, echoNavs, tokenFile, environ>>
    /\ UNCHANGED <<inputVars, ruleVars, validated, detailVars>>

\* extractor.setup_driver()
CallSetupDriver ==
    /\ pc = "calls"
    /\ Len(events) < MaxCalls
    /\ \E d \in {"ok", "wait_fail", "fail", "tmpdir_fail"} : AssignDriver(d)
    /\ events' = Append(events, "setup_driver")
    /\ UNCHANGED <<pc, quitCalls>>
    /\ CallsFrame

\* extractor.run(), up to its finally clause: setup_driver() and, when it
\* returned, the steps that use the session
CallRun ==
    /\ pc = "calls"
    /\ Len(events) < MaxCalls
    /\ \E d \in {"ok", "wait_fail", "fail", "tmpdir_fail"} : AssignDriver(d)
    /\ events' = Append(events, "run")
    /\ pc' = "in_run"
    /\ UNCHANGED quitCalls
    /\ CallsFrame

\* run()'s "finally: self.cleanup()"
CallRunFinally ==
    /\ pc = "in_run"
    /\ Cleanup
    /\ pc' = "calls"
    /\ exc' = NoExc
    /\ UNCHANGED created
    /\ CallsFrame

\* extractor.cleanup()
CallCleanup ==
    /\ pc = "calls"
    /\ Cleanup
    /\ exc' = NoExc
    /\ UNCHANGED <<pc, created>>
    /\ CallsFrame

\* the end of "with extractor:": __exit__ calls cleanup() and returns None
CallExit ==
    /\ pc = "calls"
    /\ Cleanup
    /\ exc' = NoExc
    /\ UNCHANGED <<pc, created>>
    /\ CallsFrame

NextCalls ==
    \/ CallSetupDriver
    \/ CallRun
    \/ CallRunFinally
    \/ CallCleanup
    \/ CallExit

SpecCalls == InitCalls /\ [][NextCalls]_vars

\* the browser sessions created and not torn down by quit()
LiveSessions == created - quitCalls

\* C26: at most one browser session is live at any time, over any sequence of
\* calls of setup_driver, run, cleanup and the exit of a with statement: no
\* session is created while an earlier one has not been torn down.
C26_OneSessionAtATime == LiveSessions <= 1
====
